---- MODULE Spec2Model ----
(***************************************************************************)
(* A model of app.py of PO-Extractor: the PDF text loader, the response    *)
(* parser (brace slice + JSON decoding), and the "Process PDFs" handler    *)
(* that runs the PO, GRN and MRN extractions and merges them by position.  *)
(*                                                                         *)
(* Three specifications share the module:                                  *)
(*   SpecLoader  extract_pdf_text, one action per page of the loop         *)
(*   SpecParser  the parsing tail of extract_structured_data               *)
(*   Spec        one run of the script, from the secrets check to export   *)
(***************************************************************************)
EXTENDS Integers, Sequences, FiniteSets, TLC

VARIABLES
  \* ---- extract_pdf_text ----
  pages,        \* pdf.pages: per page what page.extract_text() returns
  pageIdx,      \* number of pages the for loop has consumed
  text_all,     \* the accumulator of extract_pdf_text
  loadPc,       \* "idle" | "loop" | "returned"
  \* ---- response parser ----
  raw,          \* response.data.chat_response.text, as a token sequence
  parsed,       \* result of json.loads(raw[start:end]), or DecodeError
  \* ---- one run of the script ----
  secrets,      \* st.secrets: "absent" | "partial" | "complete"
  pc,           \* position of the script
  err,          \* the unhandled exception that ended the run ("none" if none)
  failedAt,     \* where that exception was raised ("none" if none)
  shown,        \* st.error message shown to the user ("none" if none)
  clientBuilt,  \* the module-level GenerativeAiInferenceClient exists
  uploadsDone,  \* the three st.file_uploader widgets were evaluated
  files,        \* po_file / grn_file / mrn_file present
  written,      \* files written into the temporary directory
  pdfsRead,     \* doc types whose PDF extract_pdf_text has read
  callLog,      \* doc types for which client.chat was invoked, in order
  inFlight,     \* doc types whose client.chat call has not returned yet
  data,         \* po_data / grn_data / mrn_data once decoded
  rows,         \* the merged rows
  exported      \* the dataframe, table and download button were produced

loaderVars == <<pages, pageIdx, text_all, loadPc>>
parserVars == <<raw, parsed>>
runVars == <<secrets, pc, err, failedAt, shown, clientBuilt, uploadsDone, files, written,
             pdfsRead, callLog, inFlight, data, rows, exported>>
vars == <<loaderVars, parserVars, runVars>>

\* ------------------------------------------------------------------------
\* Bounds of the model
\* ------------------------------------------------------------------------
MaxPages == 3
MaxPageLen == 2
MaxRawLen == 6
MaxPOItems == 3
MaxGRNItems == 2
MaxMRNItems == 4

\* ------------------------------------------------------------------------
\* Python helpers
\* ------------------------------------------------------------------------
\* Python's None.
None == <<"None">>

\* ========================================================================
\* extract_pdf_text (app.py 40-47)
\* ========================================================================
\* Characters of a page's text; a page's own text may hold newlines.
PageChars == {"a", "\n"}

RECURSIVE SeqsUpTo(_, _)
\* All sequences over S of length at most n.
SeqsUpTo(S, n) ==
  IF n = 0 THEN {<<>>}
  ELSE LET shorter == SeqsUpTo(S, n - 1)
       IN shorter \cup {Append(q, c) : q \in {r \in shorter : Len(r) = n - 1}, c \in S}

\* What page.extract_text() can return: None, "" or a text.
PageTexts == {None} \cup SeqsUpTo(PageChars, MaxPageLen)

\* Python truthiness of what extract_text returned ("if txt:").
Truthy(txt) == txt # None /\ txt # <<>>

\* A page that contributes a newline whenever extract_text returned a string.
PageContributionNoEmptyCheck(txt) ==
  IF txt # None THEN txt \o <<"\n">> ELSE <<>>

\* What one iteration of the loop adds to text_all (lines 44-46).
PageContribution(txt) ==
  IF Truthy(txt) THEN txt \o <<"\n">> ELSE <<>>

LoaderIdle ==
  /\ pages = <<>> /\ pageIdx = 0 /\ text_all = <<>> /\ loadPc = "idle"

\* text_all = "" and pdfplumber.open(path) (lines 41-42).
LoaderOpen ==
  /\ pages \in SeqsUpTo(PageTexts, MaxPages)
  /\ pageIdx = 0
  /\ text_all = <<>>
  /\ loadPc = "loop"

\* One iteration of "for page in pdf.pages" (lines 43-46).
LoadPage ==
  /\ loadPc = "loop"
  /\ pageIdx < Len(pages)
  /\ text_all' = text_all \o PageContribution(pages[pageIdx + 1])
  /\ pageIdx' = pageIdx + 1
  /\ UNCHANGED <<pages, loadPc, parserVars, runVars>>

\* "return text_all" once the loop is exhausted (line 47).
LoadReturn ==
  /\ loadPc = "loop"
  /\ pageIdx = Len(pages)
  /\ loadPc' = "returned"
  /\ UNCHANGED <<pages, pageIdx, text_all, parserVars, runVars>>

\* ========================================================================
\* Response parser: lines 161-164 of extract_structured_data
\* ========================================================================
\* The response is a sequence of tokens: the two braces, "k" for a quoted key
\* with its colon ("a":), "1" for a scalar, "," and "x" for any character
\* of prose.
Tokens == {"{", "}", "k", "1", ",", "x"}

\* Decoded values: a number, an object without members, an object whose
\* key "a" maps to v.  DecodeError stands for json.JSONDecodeError.
JNum == <<"num">>
JEmptyObj == <<"obj">>
JObj(v) == <<"obj", v>>
DecodeError == <<"JSONDecodeError">>
NotParsed == <<"not parsed">>

\* str.find: the 0-based index of the first c in s, or -1.
Find(s, c) ==
  IF \E i \in 1..Len(s) : s[i] = c
  THEN (CHOOSE i \in 1..Len(s) : s[i] = c /\ \A j \in 1..(i - 1) : s[j] # c) - 1
  ELSE -1

\* str.rfind: the 0-based index of the last c in s, or -1.
RFind(s, c) ==
  IF \E i \in 1..Len(s) : s[i] = c
  THEN (CHOOSE i \in 1..Len(s) : s[i] = c /\ \A j \in (i + 1)..Len(s) : s[j] # c) - 1
  ELSE -1

\* Python's index clamping of a slice bound: a negative bound counts from
\* the end, and the result is kept within 0..len.
ClampIndex(i, n) ==
  LET j == IF i < 0 THEN i + n ELSE i
  IN IF j < 0 THEN 0 ELSE IF j > n THEN n ELSE j

\* s[start:end] with Python's semantics (0-based, end exclusive).
PySlice(s, start, end) ==
  LET a == ClampIndex(start, Len(s))
      b == ClampIndex(end, Len(s))
  IN IF a >= b THEN <<>> ELSE SubSeq(s, a + 1, b)

ParseFail == [ok |-> FALSE, v |-> DecodeError, next |-> 0]

RECURSIVE ParseValue(_, _)
RECURSIVE ParseMembers(_, _)
\* The members of an object from position i (a key is expected there) to the
\* closing brace; a repeated key keeps its last value.
ParseMembers(s, i) ==
  IF i + 1 > Len(s) \/ s[i] # "k" THEN ParseFail
  ELSE LET val == ParseValue(s, i + 1)
       IN IF ~val.ok \/ val.next > Len(s) THEN ParseFail
          ELSE IF s[val.next] = "}"
               THEN [ok |-> TRUE, v |-> JObj(val.v), next |-> val.next + 1]
          ELSE IF s[val.next] = ","
               THEN ParseMembers(s, val.next + 1)
          ELSE ParseFail

\* One JSON value starting at position i; next is the position after it.
ParseValue(s, i) ==
  IF i > Len(s) THEN ParseFail
  ELSE IF s[i] = "1" THEN [ok |-> TRUE, v |-> JNum, next |-> i + 1]
  ELSE IF s[i] = "{"
       THEN IF i + 1 <= Len(s) /\ s[i + 1] = "}"
            THEN [ok |-> TRUE, v |-> JEmptyObj, next |-> i + 2]
            ELSE ParseMembers(s, i + 1)
  ELSE ParseFail

\* json.loads: one JSON value (of any kind) and then the end of the input.
JsonLoads(s) ==
  LET r == ParseValue(s, 1)
  IN IF r.ok /\ r.next = Len(s) + 1 THEN r.v ELSE DecodeError

\* The parser with end = raw.rfind("}"), the "+ 1" forgotten.
ParseResponseEndExclusive(r) == JsonLoads(PySlice(r, Find(r, "{"), RFind(r, "}")))

\* The parser with the slice running to the end of the response.
ParseResponseToEnd(r) == JsonLoads(PySlice(r, Find(r, "{"), Len(r)))

\* start = raw.find("{"); end = raw.rfind("}") + 1;
\* json.loads(raw[start:end])  (lines 161-164).
ParseResponse(r) == JsonLoads(PySlice(r, Find(r, "{"), RFind(r, "}") + 1))

ParserIdle == raw = <<>> /\ parsed = NotParsed

\* The inference service has answered with some text (line 159).
ParserStart ==
  /\ raw \in SeqsUpTo(Tokens, MaxRawLen)
  /\ parsed = NotParsed

\* Lines 161-164 applied to the response.
ParseStep ==
  /\ parsed = NotParsed
  /\ parsed' = ParseResponse(raw)
  /\ UNCHANGED <<raw, loaderVars, runVars>>

\* ========================================================================
\* One run of the script (app.py 15-37 and 169-249)
\* ========================================================================
DocTypes == {"PO", "GRN", "MRN"}

\* A Python dict is a function from its keys to its values.
EmptyDict == [k \in {} |-> ""]
\* d[k] = v
Put(d, k, v) == [x \in DOMAIN d \cup {k} |-> IF x = k THEN v ELSE d[x]]
\* {**a, **b}: on a shared key the right operand wins.
Merge(a, b) == [x \in DOMAIN a \cup DOMAIN b |-> IF x \in DOMAIN b THEN b[x] ELSE a[x]]

\* The keys the seeding loop adds to every row (lines 205-210).
GRNHeaderKeys == <<"GRN no", "GRN Date">>
GRNItemKeys == <<"Delivered Qty", "Remarks">>
MRNHeaderKeys == <<"MRN no">>
MRNItemKeys == <<"Rejected Amount">>
PlaceholderKeys ==
  {"GRN no", "GRN Date", "Delivered Qty", "Remarks", "MRN no", "Rejected Amount"}
Placeholders == [k \in PlaceholderKeys |-> ""]

\* ---- what the model can answer: the decoded extraction is not validated,
\* ---- so keys may be missing, or may be keys of another schema
POHeaders ==
  { ("po no" :> "100"),
    ("po no" :> "100") @@ ("Quantity" :> "9") }
POItemPool ==
  { ("Quantity" :> "5"),
    ("Quantity" :> "7") @@ ("Remarks" :> "po remark") }
GRNHeaders ==
  { ("GRN no" :> "G1") @@ ("GRN Date" :> "2024-01-01"),
    ("GRN no" :> "G1"),
    ("GRN Date" :> "2024-01-01") }
GRNItemPool ==
  { ("Delivered Qty" :> "5") @@ ("Remarks" :> "OK"),
    ("Delivered Qty" :> "3"),
    ("Remarks" :> "short") }
MRNHeaders == { ("MRN no" :> "M1"), EmptyDict }
MRNItemPool == { ("Rejected Amount" :> "0"), EmptyDict }

\* The decoded {"header": ..., "items": [...]} objects a stage can get.
Extractions(t) ==
  IF t = "PO"
  THEN [decoded : {TRUE}, header : POHeaders,
        items : SeqsUpTo(POItemPool, MaxPOItems)]
  ELSE IF t = "GRN"
  THEN [decoded : {TRUE}, header : GRNHeaders,
        items : SeqsUpTo(GRNItemPool, MaxGRNItems)]
  ELSE [decoded : {TRUE}, header : MRNHeaders,
        items : SeqsUpTo(MRNItemPool, MaxMRNItems)]

\* Raw responses of the service: an object in prose, a bare object, prose
\* alone, and an object cut short by the token limit.
SampleResponses ==
  { <<"x", "{", "k", "1", "}", "x">>,
    <<"{", "k", "1", "}">>,
    <<"x">>,
    <<"{", "k", "1">> }

\* ---- the merge
\* One seeded row with the PO's keys taking precedence over the placeholders.
SeedRowPlaceholdersFirst(header, item) == Merge(Merge(Placeholders, header), item)

\* {**header, **item, "GRN no": "", ...}  (lines 202-211).
SeedRow(header, item) == Merge(Merge(header, item), Placeholders)

\* rows after the seeding loop (lines 200-211).
SeedRows(header, po_items) ==
  [k \in 1..Len(po_items) |-> SeedRow(header, po_items[k])]

\* item.get(key, "")
ItemGet(item, key) == IF key \in DOMAIN item THEN item[key] ELSE ""

RECURSIVE AssignHeaderLenient(_, _, _)
\* The header assignments with header.get(key, "") in place of header[key].
AssignHeaderLenient(row, header, keys) ==
  IF keys = <<>> THEN [row |-> row, ok |-> TRUE]
  ELSE AssignHeaderLenient(Put(row, Head(keys), ItemGet(header, Head(keys))),
                           header, Tail(keys))

RECURSIVE AssignHeader(_, _, _)
\* rows[i][key] = doc["header"][key] for each key in turn (lines 219-220, 230);
\* header[key] raises KeyError on a missing key and the assignments made
\* before it stay.
AssignHeader(row, header, keys) ==
  IF keys = <<>> THEN [row |-> row, ok |-> TRUE]
  ELSE IF Head(keys) \notin DOMAIN header THEN [row |-> row, ok |-> FALSE]
  ELSE AssignHeader(Put(row, Head(keys), header[Head(keys)]), header, Tail(keys))

RECURSIVE AssignItem(_, _, _)
\* rows[i][key] = item.get(key, "") for each key in turn (lines 221-222, 231).
AssignItem(row, item, keys) ==
  IF keys = <<>> THEN row
  ELSE AssignItem(Put(row, Head(keys), ItemGet(item, Head(keys))), item, Tail(keys))

RECURSIVE OverlayAppendingFrom(_, _, _, _, _, _)
\* An overlay that adds a row for every item beyond the last row.
OverlayAppendingFrom(rs, i, header, items, hkeys, ikeys) ==
  IF i > Len(items) THEN [rows |-> rs, ok |-> TRUE]
  ELSE LET h == AssignHeader(IF i <= Len(rs) THEN rs[i] ELSE Placeholders, header, hkeys)
           put(r) == IF i <= Len(rs) THEN [rs EXCEPT ![i] = r] ELSE Append(rs, r)
       IN IF ~h.ok THEN [rows |-> put(h.row), ok |-> FALSE]
          ELSE OverlayAppendingFrom(put(AssignItem(h.row, items[i], ikeys)),
                                    i + 1, header, items, hkeys, ikeys)

OverlayAppending(rs, header, items, hkeys, ikeys) ==
  OverlayAppendingFrom(rs, 1, header, items, hkeys, ikeys)

RECURSIVE OverlayHeaderOnEveryRowFrom(_, _, _, _, _, _)
\* An overlay that runs over the rows instead of the items.
OverlayHeaderOnEveryRowFrom(rs, i, header, items, hkeys, ikeys) ==
  IF i > Len(rs) THEN [rows |-> rs, ok |-> TRUE]
  ELSE LET h == AssignHeader(rs[i], header, hkeys)
           item == IF i <= Len(items) THEN items[i] ELSE EmptyDict
       IN IF ~h.ok THEN [rows |-> [rs EXCEPT ![i] = h.row], ok |-> FALSE]
          ELSE OverlayHeaderOnEveryRowFrom(
                 [rs EXCEPT ![i] = AssignItem(h.row, item, ikeys)],
                 i + 1, header, items, hkeys, ikeys)

OverlayHeaderOnEveryRow(rs, header, items, hkeys, ikeys) ==
  OverlayHeaderOnEveryRowFrom(rs, 1, header, items, hkeys, ikeys)

RECURSIVE OverlayFrom(_, _, _, _, _, _)
\* The iterations i, i+1, ... (1-based) of
\*   for i, item in enumerate(doc["items"]): if i < len(rows): ...
\* ok is FALSE when a KeyError ended the loop; rows is what the loop left.
OverlayFrom(rs, i, header, items, hkeys, ikeys) ==
  IF i > Len(items) THEN [rows |-> rs, ok |-> TRUE]
  ELSE IF i > Len(rs) THEN OverlayFrom(rs, i + 1, header, items, hkeys, ikeys)
  ELSE LET h == AssignHeader(rs[i], header, hkeys)
       IN IF ~h.ok THEN [rows |-> [rs EXCEPT ![i] = h.row], ok |-> FALSE]
          ELSE OverlayFrom([rs EXCEPT ![i] = AssignItem(h.row, items[i], ikeys)],
                           i + 1, header, items, hkeys, ikeys)

\* The whole overlay loop (lines 217-222 for GRN, 228-231 for MRN).
Overlay(rs, header, items, hkeys, ikeys) ==
  OverlayFrom(rs, 1, header, items, hkeys, ikeys)

\* ---- the script
\* po_data, grn_data and mrn_data before their stage has assigned them.
NoData == [t \in DocTypes |-> [decoded |-> FALSE, header |-> EmptyDict, items |-> <<>>]]

RunIdle ==
  /\ secrets = "complete" /\ pc = "idle" /\ err = "none" /\ failedAt = "none"
  /\ shown = "none" /\ clientBuilt = FALSE /\ uploadsDone = FALSE
  /\ files = [t \in DocTypes |-> FALSE] /\ written = {} /\ pdfsRead = {}
  /\ callLog = <<>> /\ inFlight = {} /\ data = NoData /\ rows = <<>>
  /\ exported = FALSE

\* The script starts; the secret store is whatever the deployment holds.
RunStart ==
  /\ secrets \in {"absent", "partial", "complete"}
  /\ pc = "secrets_check" /\ err = "none" /\ failedAt = "none"
  /\ shown = "none" /\ clientBuilt = FALSE /\ uploadsDone = FALSE
  /\ files = [t \in DocTypes |-> FALSE] /\ written = {} /\ pdfsRead = {}
  /\ callLog = <<>> /\ inFlight = {} /\ data = NoData /\ rows = <<>>
  /\ exported = FALSE

\* An unhandled exception of kind e raised at place w ends the run.
Crash(e, w) == pc' = "crashed" /\ err' = e /\ failedAt' = w

\* if "oci" not in st.secrets: st.error(...); st.stop()  (lines 15-17).
CheckSecrets ==
  /\ pc = "secrets_check"
  /\ IF secrets = "absent"
     THEN /\ shown' = "OCI credentials not found"
          /\ pc' = "stopped"
     ELSE /\ pc' = "config"
          /\ UNCHANGED shown
  /\ UNCHANGED <<secrets, err, failedAt, clientBuilt, uploadsDone, files, written,
                 pdfsRead, callLog, inFlight, data, rows, exported>>
  /\ UNCHANGED <<loaderVars, parserVars>>

\* OCI_CONFIG ... client = GenerativeAiInferenceClient(...)  (lines 20-37);
\* st.secrets["oci"][key] raises KeyError when the bundle lacks a key.
BuildClient ==
  /\ pc = "config"
  /\ IF secrets = "partial"
     THEN /\ Crash("KeyError", "config")
          /\ UNCHANGED clientBuilt
     ELSE /\ clientBuilt' = TRUE
          /\ pc' = "uploaders"
          /\ UNCHANGED <<err, failedAt>>
  /\ UNCHANGED <<secrets, shown, uploadsDone, files, written,
                 pdfsRead, callLog, inFlight, data, rows, exported>>
  /\ UNCHANGED <<loaderVars, parserVars>>

\* The three st.file_uploader widgets (lines 169-171).
RenderUploaders ==
  /\ pc = "uploaders"
  /\ \E f \in [DocTypes -> BOOLEAN] : files' = f
  /\ uploadsDone' = TRUE
  /\ pc' = "button"
  /\ UNCHANGED <<secrets, err, failedAt, shown, clientBuilt, written,
                 pdfsRead, callLog, inFlight, data, rows, exported>>
  /\ UNCHANGED <<loaderVars, parserVars>>

\* if st.button("Process PDFs"): the script ends here unless it was pressed
\* (line 173).
Button ==
  /\ pc = "button"
  /\ \E pressed \in BOOLEAN : pc' = IF pressed THEN "upload_check" ELSE "not_triggered"
  /\ UNCHANGED <<secrets, err, failedAt, shown, clientBuilt, uploadsDone, files,
                 written, pdfsRead, callLog, inFlight, data, rows, exported>>
  /\ UNCHANGED <<loaderVars, parserVars>>

\* A check that passes as soon as one file is there.
AnyUploaded(f) == f["PO"] \/ f["GRN"] \/ f["MRN"]

\* po_file and grn_file and mrn_file  (line 175).
AllUploaded(f) == f["PO"] /\ f["GRN"] /\ f["MRN"]

\* if not (...): st.error(...); st.stop()  (lines 175-177).
CheckUploads ==
  /\ pc = "upload_check"
  /\ IF ~AllUploaded(files)
     THEN /\ shown' = "Please upload PO, GRN and MRN PDFs"
          /\ pc' = "stopped"
     ELSE /\ pc' = "write_files"
          /\ UNCHANGED shown
  /\ UNCHANGED <<secrets, err, failedAt, clientBuilt, uploadsDone, files, written,
                 pdfsRead, callLog, inFlight, data, rows, exported>>
  /\ UNCHANGED <<loaderVars, parserVars>>

\* The loop writing the three uploads into the temporary directory
\* (lines 185-191).
WriteFiles ==
  /\ pc = "write_files"
  /\ written' = {t \in DocTypes : files[t]}
  /\ pc' = "read_PO"
  /\ UNCHANGED <<secrets, err, failedAt, shown, clientBuilt, uploadsDone, files,
                 pdfsRead, callLog, inFlight, data, rows, exported>>
  /\ UNCHANGED <<loaderVars, parserVars>>

\* Positions of the script inside the stage of document type t.
ReadPc == [PO |-> "read_PO", GRN |-> "read_GRN", MRN |-> "read_MRN"]
CallPc == [PO |-> "call_PO", GRN |-> "call_GRN", MRN |-> "call_MRN"]
AwaitPc == [PO |-> "await_PO", GRN |-> "await_GRN", MRN |-> "await_MRN"]
MergePc == [PO |-> "merge_PO", GRN |-> "merge_GRN", MRN |-> "merge_MRN"]

\* A script whose PO stage is followed by the MRN stage.
NextDocSkippingGRN(t) == "MRN"

\* The stage that follows stage t in the script: the PO block (193-211) is
\* followed by the GRN block (213-222) and that by the MRN block (224-231).
NextDoc(t) == IF t = "PO" THEN "GRN" ELSE "MRN"

HeaderKeys(t) == IF t = "GRN" THEN GRNHeaderKeys ELSE MRNHeaderKeys
ItemKeys(t) == IF t = "GRN" THEN GRNItemKeys ELSE MRNItemKeys

\* x_text = extract_pdf_text(x_path)  (lines 194, 214, 225).
ReadPdf(t) ==
  /\ pc = ReadPc[t]
  /\ pdfsRead' = pdfsRead \cup {t}
  /\ pc' = CallPc[t]
  /\ UNCHANGED <<secrets, err, failedAt, shown, clientBuilt, uploadsDone, files,
                 written, callLog, inFlight, data, rows, exported>>
  /\ UNCHANGED <<loaderVars, parserVars>>

\* extract_structured_data builds the prompt and invokes client.chat
\* (lines 50-158).
CallStart(t) ==
  /\ pc = CallPc[t]
  /\ callLog' = Append(callLog, t)
  /\ inFlight' = inFlight \cup {t}
  /\ pc' = AwaitPc[t]
  /\ UNCHANGED <<secrets, err, failedAt, shown, clientBuilt, uploadsDone, files,
                 written, pdfsRead, data, rows, exported>>
  /\ UNCHANGED <<loaderVars, parserVars>>

\* A failed call after which the call is made again.
CallFailRetry(t) ==
  /\ pc = AwaitPc[t]
  /\ inFlight' = inFlight \ {t}
  /\ pc' = CallPc[t]
  /\ UNCHANGED <<secrets, err, failedAt, shown, clientBuilt, uploadsDone, files,
                 written, pdfsRead, callLog, data, rows, exported>>
  /\ UNCHANGED <<loaderVars, parserVars>>

\* client.chat raises (network, auth, quota, timeout); the client is built
\* with NoneRetryStrategy and nothing catches the exception (lines 32-37, 158).
CallFail(t) ==
  /\ pc = AwaitPc[t]
  /\ inFlight' = inFlight \ {t}
  /\ Crash("ServiceError", t)
  /\ UNCHANGED <<secrets, shown, clientBuilt, uploadsDone, files,
                 written, pdfsRead, callLog, data, rows, exported>>
  /\ UNCHANGED <<loaderVars, parserVars>>

\* client.chat returns a text that json.loads rejects (lines 159-164).
DecodeFail(t) ==
  /\ pc = AwaitPc[t]
  /\ \E r \in SampleResponses : ParseResponse(r) = DecodeError
  /\ inFlight' = inFlight \ {t}
  /\ Crash("JSONDecodeError", t)
  /\ UNCHANGED <<secrets, shown, clientBuilt, uploadsDone, files,
                 written, pdfsRead, callLog, data, rows, exported>>
  /\ UNCHANGED <<loaderVars, parserVars>>

\* client.chat returns a text that decodes; x_data is assigned
\* (lines 159-164 and 195, 215, 226).
DecodeOk(t) ==
  /\ pc = AwaitPc[t]
  /\ \E r \in SampleResponses : ParseResponse(r) # DecodeError
  /\ \E d \in Extractions(t) : data' = [data EXCEPT ![t] = d]
  /\ inFlight' = inFlight \ {t}
  /\ pc' = MergePc[t]
  /\ UNCHANGED <<secrets, err, failedAt, shown, clientBuilt, uploadsDone, files,
                 written, pdfsRead, callLog, rows, exported>>
  /\ UNCHANGED <<loaderVars, parserVars>>

\* header = po_data["header"] ... the seeding loop (lines 197-211).
SeedStep ==
  /\ pc = MergePc["PO"]
  /\ rows' = SeedRows(data["PO"].header, data["PO"].items)
  /\ pc' = ReadPc[NextDoc("PO")]
  /\ UNCHANGED <<secrets, err, failedAt, shown, clientBuilt, uploadsDone, files,
                 written, pdfsRead, callLog, inFlight, data, exported>>
  /\ UNCHANGED <<loaderVars, parserVars>>

\* The GRN overlay loop (lines 217-222) or the MRN one (lines 228-231).
OverlayStep(t) ==
  /\ t \in {"GRN", "MRN"}
  /\ pc = MergePc[t]
  /\ LET o == Overlay(rows, data[t].header, data[t].items, HeaderKeys(t), ItemKeys(t))
     IN /\ rows' = o.rows
        /\ IF o.ok
           THEN /\ pc' = IF t = "MRN" THEN "export" ELSE ReadPc[NextDoc(t)]
                /\ UNCHANGED <<err, failedAt>>
           ELSE Crash("KeyError", t)
  /\ UNCHANGED <<secrets, shown, clientBuilt, uploadsDone, files,
                 written, pdfsRead, callLog, inFlight, data, exported>>
  /\ UNCHANGED <<loaderVars, parserVars>>

\* df = pd.DataFrame(rows), the table and the download button
\* (lines 233-249).
Export ==
  /\ pc = "export"
  /\ exported' = TRUE
  /\ pc' = "done"
  /\ UNCHANGED <<secrets, err, failedAt, shown, clientBuilt, uploadsDone, files,
                 written, pdfsRead, callLog, inFlight, data, rows>>
  /\ UNCHANGED <<loaderVars, parserVars>>

\* ========================================================================
\* Specifications
\* ========================================================================
LoaderInit == LoaderOpen /\ ParserIdle /\ RunIdle
LoaderNext == LoadPage \/ LoadReturn
SpecLoader == LoaderInit /\ [][LoaderNext]_vars

ParserInit == LoaderIdle /\ ParserStart /\ RunIdle
ParserNext == ParseStep
SpecParser == ParserInit /\ [][ParserNext]_vars

Init == LoaderIdle /\ ParserIdle /\ RunStart
Next ==
  \/ CheckSecrets
  \/ BuildClient
  \/ RenderUploaders
  \/ Button
  \/ CheckUploads
  \/ WriteFiles
  \/ \E t \in DocTypes :
       \/ ReadPdf(t)
       \/ CallStart(t)
       \/ CallFail(t)
       \/ DecodeFail(t)
       \/ DecodeOk(t)
       \/ OverlayStep(t)
  \/ SeedStep
  \/ Export
Spec == Init /\ [][Next]_vars

\* ========================================================================
\* Properties of extract_pdf_text
\* ========================================================================
\* The page texts that are real, non-empty strings, in page order.
RECURSIVE TextsWithContent(_)
TextsWithContent(ps) ==
  IF ps = <<>> THEN <<>>
  ELSE IF Head(ps) = None \/ Head(ps) = <<>>
       THEN TextsWithContent(Tail(ps))
       ELSE <<Head(ps)>> \o TextsWithContent(Tail(ps))

\* ts joined with a newline between consecutive elements ("\n".join).
RECURSIVE JoinNewline(_)
JoinNewline(ts) ==
  IF ts = <<>> THEN <<>>
  ELSE IF Len(ts) = 1 THEN Head(ts)
  ELSE Head(ts) \o <<"\n">> \o JoinNewline(Tail(ts))

\* ts with a newline after every element.
RECURSIVE EachTerminated(_)
EachTerminated(ts) ==
  IF ts = <<>> THEN <<>>
  ELSE Head(ts) \o <<"\n">> \o EachTerminated(Tail(ts))

\* C9 as stated: the loader returns the texts of the pages that have text,
\* in page order, separated by a newline (and "" when no page has text).
C9_SeparatedByNewline ==
  loadPc = "returned" => text_all = JoinNewline(TextsWithContent(pages))

\* C9 amended: the loader returns the texts of the pages that have text, in
\* page order, each FOLLOWED by a newline; pages without text contribute
\* nothing, and a PDF with no page or no text yields "".  The same holds of
\* the accumulator after every iteration, for the pages consumed so far.
C9_TerminatedByNewline ==
  /\ loadPc \in {"loop", "returned"} =>
       text_all = EachTerminated(TextsWithContent(SubSeq(pages, 1, pageIdx)))
  /\ loadPc = "returned" =>
       /\ pageIdx = Len(pages)
       /\ (TextsWithContent(pages) = <<>> => text_all = <<>>)

\* A PDF of three pages, the middle one without text, has been loaded.
C9_Witness ==
  /\ loadPc = "returned"
  /\ Len(pages) = 3
  /\ pages[1] = <<"a">> /\ pages[2] \in {None, <<>>} /\ pages[3] = <<"a", "a">>
  /\ text_all = <<"a", "\n", "a", "a", "\n">>

\* ========================================================================
\* Properties of the response parser
\* ========================================================================
\* The JSON texts of at most n tokens with the value each denotes, generated
\* from the grammar
\*    value  ::= 1 | { } | { member (, member)* }       member ::= k value
JSONScalarsAndEmpty ==
  {[s |-> <<"1">>, v |-> JNum], [s |-> <<"{", "}">>, v |-> JEmptyObj]}

\* Member lists "k v" and "ml , k v" over the values of V, at most n tokens.
RECURSIVE MemberLists(_, _, _)
MemberLists(V, n, rounds) ==
  LET single == {[s |-> <<"k">> \o j.s, v |-> j.v] : j \in {x \in V : Len(x.s) + 1 <= n}}
  IN IF rounds = 0 THEN single
     ELSE LET prev == MemberLists(V, n, rounds - 1)
          IN prev \cup
             {[s |-> ml.s \o <<",", "k">> \o j.s, v |-> j.v] :
                 ml \in prev, j \in {x \in V : Len(x.s) + 4 <= n}}

RECURSIVE JSONTexts(_, _)
JSONTexts(n, rounds) ==
  IF rounds = 0 THEN {j \in JSONScalarsAndEmpty : Len(j.s) <= n}
  ELSE LET V == JSONTexts(n, rounds - 1)
           objs == {[s |-> <<"{">> \o ml.s \o <<"}">>, v |-> JObj(ml.v)] :
                       ml \in {m \in MemberLists(V, n - 2, n) : Len(m.s) <= n - 2}}
       IN V \cup objs

\* Every well-formed JSON text a response of the model can hold.
WellFormedJSON == JSONTexts(MaxRawLen, MaxRawLen)
WellFormedObjects == {j \in WellFormedJSON : j.s[1] = "{"}

HasToken(s, c) == \E i \in 1..Len(s) : s[i] = c
BraceFree(s) == ~HasToken(s, "{") /\ ~HasToken(s, "}")
\* 1-based positions of the first "{" and the last "}".
FirstOpen(s) == CHOOSE i \in 1..Len(s) : s[i] = "{" /\ \A j \in 1..(i - 1) : s[j] # "{"
LastClose(s) == CHOOSE i \in 1..Len(s) : s[i] = "}" /\ \A j \in (i + 1)..Len(s) : s[j] # "}"
\* The response has a "{" and, after it, a "}".
HasBraceSlice(s) == HasToken(s, "{") /\ HasToken(s, "}") /\ FirstOpen(s) < LastClose(s)
BraceSlice(s) == SubSeq(s, FirstOpen(s), LastClose(s))

\* C4: the parser returns the decoding of the text from the first "{" to the
\* last "}" inclusive; and for a well-formed object wrapped in brace-free
\* prose the result is the value of that object.
C4_DecodesBraceSlice ==
  parsed # NotParsed =>
    /\ HasBraceSlice(raw) =>
         /\ parsed = JsonLoads(BraceSlice(raw))
         /\ \A j \in WellFormedJSON : j.s = BraceSlice(raw) => parsed = j.v
    /\ \A j \in WellFormedObjects :
         \A a \in 0..Len(raw) :
           LET b == a + Len(j.s)
           IN (/\ b <= Len(raw)
               /\ SubSeq(raw, a + 1, b) = j.s
               /\ BraceFree(SubSeq(raw, 1, a))
               /\ BraceFree(SubSeq(raw, b + 1, Len(raw))))
              => parsed = j.v

\* The object {"a": 1} with prose before and after it has been decoded.
C4_Witness ==
  /\ raw = <<"x", "{", "k", "1", "}", "x">>
  /\ parsed = JObj(JNum)

po_header == data["PO"].header
po_items == data["PO"].items
grn_items == data["GRN"].items
mrn_items == data["MRN"].items

\* The seeding loop has run.
Seeded == data["PO"].decoded /\ pc # "merge_PO"
\* The overlay loop of document type t has run (to its end or to a KeyError).
Overlaid(t) == data[t].decoded /\ pc # MergePc[t]
\* Both overlays ran to their end.
Merged == pc \in {"export", "done"}

\* The value of key k in dict d, "" when d has no such key.
FieldOrEmpty(d, k) == IF k \in DOMAIN d THEN d[k] ELSE ""
\* Number of occurrences of t in the call log.
Calls(t) == Cardinality({i \in 1..Len(callLog) : callLog[i] = t})

\* C1: from seeding to export the rows are as many as the PO items and row k
\* stems from PO item k; no overlay adds, removes or reorders rows, items
\* of GRN/MRN beyond the rows are dropped, and zero PO items give zero rows.
C1_RowsFollowPOItems ==
  Seeded =>
    /\ Len(rows) = Len(po_items)
    /\ \A k \in 1..Len(po_items) :
         \A f \in DOMAIN po_items[k] \ PlaceholderKeys : rows[k][f] = po_items[k][f]
    /\ (po_items = <<>> => rows = <<>>)

\* An export of one row although GRN had two items and MRN four.
C1_Witness ==
  /\ exported
  /\ Len(po_items) = 1 /\ Len(rows) = 1
  /\ Len(grn_items) = 2 /\ Len(mrn_items) = 4

\* C2: after the merge, row i carries the GRN header's GRN no / GRN Date and
\* GRN item i's Delivered Qty / Remarks when i is below min(n, g), and ""
\* in these four fields when i >= g; likewise MRN no / Rejected Amount with
\* the MRN header, MRN item i and m.  (i counts from 1 here.)
C2_PositionalOverlay ==
  Merged =>
    \A i \in 1..Len(rows) :
      /\ i <= Len(grn_items) =>
           /\ rows[i]["GRN no"] = data["GRN"].header["GRN no"]
           /\ rows[i]["GRN Date"] = data["GRN"].header["GRN Date"]
           /\ rows[i]["Delivered Qty"] = FieldOrEmpty(grn_items[i], "Delivered Qty")
           /\ rows[i]["Remarks"] = FieldOrEmpty(grn_items[i], "Remarks")
      /\ i > Len(grn_items) =>
           \A f \in {"GRN no", "GRN Date", "Delivered Qty", "Remarks"} : rows[i][f] = ""
      /\ i <= Len(mrn_items) =>
           /\ rows[i]["MRN no"] = data["MRN"].header["MRN no"]
           /\ rows[i]["Rejected Amount"] = FieldOrEmpty(mrn_items[i], "Rejected Amount")
      /\ i > Len(mrn_items) =>
           \A f \in {"MRN no", "Rejected Amount"} : rows[i][f] = ""

\* Three PO items, two GRN items and four MRN items: GRN fields on the first
\* two rows only, MRN fields on all three, the fourth MRN item dropped.
C2_Witness ==
  /\ pc = "done"
  /\ Len(rows) = 3 /\ Len(grn_items) = 2 /\ Len(mrn_items) = 4
  /\ rows[1]["GRN no"] = "G1" /\ rows[2]["GRN no"] = "G1" /\ rows[3]["GRN no"] = ""
  /\ rows[2]["Delivered Qty"] = "3" /\ rows[3]["Delivered Qty"] = ""
  /\ \A i \in 1..3 : rows[i]["MRN no"] = "M1"
  /\ rows[3]["Rejected Amount"] = "0"

\* What C3 says of a row beyond the values of the PO fields: its keys, the
\* placeholders right after seeding, and the populated finished row.
C3_KeysPlaceholdersPopulated ==
  Seeded =>
    \A k \in 1..Len(rows) :
      /\ DOMAIN rows[k] = DOMAIN po_header \cup DOMAIN po_items[k] \cup PlaceholderKeys
      /\ pc = "read_GRN" => \A f \in PlaceholderKeys : rows[k][f] = ""
      /\ ( /\ Merged
           /\ \A f \in DOMAIN po_header : po_header[f] # ""
           /\ \A f \in DOMAIN po_items[k] : po_items[k][f] # ""
           /\ k <= Len(grn_items) /\ k <= Len(mrn_items)
           /\ \A f \in {"Delivered Qty", "Remarks"} : FieldOrEmpty(grn_items[k], f) # ""
           /\ FieldOrEmpty(mrn_items[k], "Rejected Amount") # "" )
         => \A f \in DOMAIN rows[k] : rows[k][f] # ""

\* C3 as stated: every row holds every PO header field and every field of
\* its PO item with the value the PO extraction gave (at every moment from
\* seeding on, the overlays changing only the six GRN/MRN fields), the six
\* fields start empty, and a fully supplied row ends fully populated.
C3_EveryPOFieldKept ==
  /\ C3_KeysPlaceholdersPopulated
  /\ Seeded =>
       \A k \in 1..Len(rows) :
         /\ \A f \in DOMAIN po_header : rows[k][f] = po_header[f]
         /\ \A f \in DOMAIN po_items[k] : rows[k][f] = po_items[k][f]

\* C3 amended: a field of PO item k that is not one of the six GRN/MRN fields
\* keeps the item's value; a PO header field keeps the header's value unless
\* PO item k has a field of that name (the item's value wins) or it is one of
\* the six; the six start as "" even when the PO extraction has a field of
\* that name; the overlays change only the six; a fully supplied row ends
\* fully populated.
C3_POFieldsKeptUnlessShadowed ==
  /\ C3_KeysPlaceholdersPopulated
  /\ Seeded =>
       \A k \in 1..Len(rows) :
         /\ \A f \in DOMAIN po_items[k] \ PlaceholderKeys : rows[k][f] = po_items[k][f]
         /\ \A f \in DOMAIN po_header \ (DOMAIN po_items[k] \cup PlaceholderKeys) :
              rows[k][f] = po_header[f]

\* A finished row with every field populated, whose Quantity is the PO
\* item's although the PO header has a Quantity too.
C3_Witness ==
  /\ pc = "done"
  /\ Len(rows) >= 1
  /\ \A f \in DOMAIN rows[1] : rows[1][f] # ""
  /\ "Quantity" \in DOMAIN po_header
  /\ rows[1]["Quantity"] = "5"

\* The doc types whose stage comes after that of t.
Later(t) == IF t = "PO" THEN {"GRN", "MRN"} ELSE IF t = "GRN" THEN {"MRN"} ELSE {}

\* C6: a failure after the checks ends the run for good: the error is never
\* left, the service is called at most once per document type, no later
\* stage runs after the failing one, and a table / download exists only when
\* all three extractions succeeded.
C6_FailuresAreFatal ==
  /\ \A t \in DocTypes : Calls(t) <= 1
  /\ err # "none" => pc = "crashed" /\ ~exported
  /\ pc = "crashed" => err # "none"
  /\ \A t \in DocTypes :
       (pc = "crashed" /\ failedAt = t) =>
         /\ Calls(t) = 1
         /\ \A u \in Later(t) : u \notin pdfsRead /\ Calls(u) = 0 /\ ~data[u].decoded
  /\ exported => /\ err = "none"
                 /\ \A t \in DocTypes : data[t].decoded /\ Calls(t) = 1

\* The GRN response did not decode: the run is over after two calls.
C6_Witness ==
  /\ pc = "crashed" /\ err = "JSONDecodeError" /\ failedAt = "GRN"
  /\ callLog = <<"PO", "GRN">>
  /\ ~exported

\* C7: the calls are made in the order PO, GRN, MRN, each after the previous
\* one returned and its response was decoded, at most one is in flight, and
\* an export is preceded by exactly the three calls.
C7_SequentialStages ==
  /\ callLog = SubSeq(<<"PO", "GRN", "MRN">>, 1, Len(callLog))
  /\ Cardinality(inFlight) <= 1
  /\ \A i \in 1..Len(callLog) :
       \A j \in 1..(i - 1) : data[callLog[j]].decoded /\ callLog[j] \notin inFlight
  /\ \A t \in inFlight : callLog # <<>> /\ callLog[Len(callLog)] = t
  /\ exported => callLog = <<"PO", "GRN", "MRN">> /\ inFlight = {}

\* The MRN call is in flight, the two before it have been decoded.
C7_Witness ==
  /\ inFlight = {"MRN"}
  /\ callLog = <<"PO", "GRN", "MRN">>
  /\ data["PO"].decoded /\ data["GRN"].decoded

\* C8: without the credential bundle the script stops with a message before
\* the client is built or an upload handled; with a file missing at trigger
\* time it stops with a message before anything is written, read or called.
C8_ChecksGateProcessing ==
  /\ secrets = "absent" =>
       /\ pc \in {"secrets_check", "stopped"}
       /\ pc = "stopped" => shown = "OCI credentials not found"
       /\ ~clientBuilt /\ ~uploadsDone
       /\ written = {} /\ pdfsRead = {} /\ callLog = <<>> /\ ~exported
  /\ (uploadsDone /\ \E t \in DocTypes : ~files[t]) =>
       /\ pc \in {"button", "not_triggered", "upload_check", "stopped"}
       /\ pc = "stopped" => shown = "Please upload PO, GRN and MRN PDFs"
       /\ written = {} /\ pdfsRead = {} /\ callLog = <<>> /\ ~exported
  /\ (written # {} \/ pdfsRead # {} \/ callLog # <<>>) =>
       clientBuilt /\ \A t \in DocTypes : files[t]

\* Processing was triggered without the MRN file and stopped with the message.
C8_Witness ==
  /\ pc = "stopped"
  /\ shown = "Please upload PO, GRN and MRN PDFs"
  /\ files["PO"] /\ files["GRN"] /\ ~files["MRN"]
  /\ written = {} /\ callLog = <<>>

\* Some key of the header schema of t is missing from the decoded header.
HeaderLacksKey(t) ==
  \E i \in 1..Len(HeaderKeys(t)) : HeaderKeys(t)[i] \notin DOMAIN data[t].header

\* C10: once the overlay of GRN (MRN) has run, the run has ended with a
\* KeyError there exactly when the header lacks a key and at least one item
\* has an index below the row count; an item lacking a field never ends the
\* run and leaves "" in that field of its row.
C10_MissingKeysAsymmetry ==
  /\ \A t \in {"GRN", "MRN"} :
       Overlaid(t) =>
         ( (pc = "crashed" /\ err = "KeyError" /\ failedAt = t)
           <=> (HeaderLacksKey(t) /\ Len(rows) > 0 /\ Len(data[t].items) > 0) )
  /\ \A t \in {"GRN", "MRN"} :
       (err = "KeyError" /\ failedAt = t) => Overlaid(t)
  /\ \A t \in {"GRN", "MRN"} :
       (Overlaid(t) /\ ~(pc = "crashed" /\ failedAt = t)) =>
         \A i \in 1..Len(rows) :
           i <= Len(data[t].items) =>
             \A j \in 1..Len(ItemKeys(t)) :
               ItemKeys(t)[j] \notin DOMAIN data[t].items[i]
                 => rows[i][ItemKeys(t)[j]] = ""

\* The MRN header lacks MRN no and the run ended with a KeyError, after a GRN
\* item without Remarks was overlaid and left that field empty.
C10_Witness ==
  /\ pc = "crashed" /\ err = "KeyError" /\ failedAt = "MRN"
  /\ Len(rows) >= 1 /\ Len(grn_items) >= 1
  /\ "Remarks" \notin DOMAIN grn_items[1]
  /\ rows[1]["Remarks"] = "" /\ rows[1]["GRN no"] = "G1"

====
